---- MODULE Spec2Model ----
(***************************************************************************)
(* MVPH Inventory: stock status classification, stock adjustment, and the  *)
(* session-scoped stock-alert queue.                                       *)
(*                                                                         *)
(* Decimal quantities (DecimalField, decimal_places=2) are integers that   *)
(* count hundredths: 550 is Decimal("5.50").  Decimal arithmetic at these  *)
(* widths is exact, so q <= r * Decimal("1.10") is 100*q <= 110*r.          *)
(***************************************************************************)
EXTENDS Integers, Sequences, FiniteSets, TLC

VARIABLES
    items,        \* InventoryItem table: pk -> row
    change_logs,  \* ItemChangeLog table, in insertion order
    session,      \* per-session store: session id -> [present, alerts]
    qualifying,   \* per session: the qualifying queue_stock_alert calls, in
                  \* call order, made since the queue key was last absent
    call,         \* the operation that produced this state, with what it read
    requests      \* per session: the adjust_stock request in progress, with the
                  \* InventoryItem instance it loaded

vars == <<items, change_logs, session, qualifying, call, requests>>

----------------------------------------------------------------------------
(* Bounds *)

MaxQty == 12            \* largest stored quantity (hundredths)
MaxDelta == 3           \* adjustments range over -MaxDelta..MaxDelta
BigDelta == 100         \* one adjustment far larger than any stored quantity
MaxQueue == 2           \* alerts queued per session
ClassifyMaxQty == 24    \* quantities of the classifier specification
ClassifyMaxReorder == 20 \* reorder points of the classifier specification
MaxPriorLogs == 1       \* change-log rows present when log_item_changes runs

ItemIds == {"i1", "i2"}
ViewItemIds == {"i1"}       \* the rows the view requests address
Sessions == {"sA", "sB"}
Names == {"Cascade Hops", "Updated Hops"}
Statuses == {"ok", "low", "reorder"}
Critical == {"low", "reorder"}
Deltas == (-MaxDelta..MaxDelta) \cup {-BigDelta}
FormQuantities == {-2, 0, 11, MaxQty}
FormReorderPoints == {0, 10}
ActionTypes == {"created", "updated", "stock_adjusted"}
LogoutSessions == {"sA"}
Emails == {"", "test@example.com"}     \* user.email; "" is no address

----------------------------------------------------------------------------
(* Helpers *)

Max(a, b) == IF a >= b THEN a ELSE b

Abs(a) == IF a < 0 THEN -a ELSE a

\* str() of a two-place Decimal: sign, integer digits, two fraction digits.
str_decimal(q) ==
    [neg |-> q < 0, units |-> Abs(q) \div 100, cents |-> Abs(q) % 100]

NoItem == [exists |-> FALSE, name |-> "", quantity_on_hand |-> 0,
           reorder_point |-> 0]

Row(n, q, r) == [exists |-> TRUE, name |-> n, quantity_on_hand |-> q,
                 reorder_point |-> r]

EmptySession == [present |-> FALSE, alerts |-> <<>>]

----------------------------------------------------------------------------
(* models.py: InventoryItem *)

is_low_stock(item) == item.quantity_on_hand <= item.reorder_point

\* stock_status with the reorder test exclusive at the boundary.
stock_status_strict(item) ==
    IF item.quantity_on_hand < item.reorder_point
    THEN "reorder"
    ELSE IF 100 * item.quantity_on_hand <= 110 * item.reorder_point
         THEN "low"
         ELSE "ok"

\* stock_status with the 10% band exclusive at its upper boundary.
stock_status_band_exclusive(item) ==
    IF item.quantity_on_hand <= item.reorder_point
    THEN "reorder"
    ELSE IF 100 * item.quantity_on_hand < 110 * item.reorder_point
         THEN "low"
         ELSE "ok"

\* stock_status whose band is a fixed 0.10 above the reorder point.
stock_status_additive_band(item) ==
    IF item.quantity_on_hand <= item.reorder_point
    THEN "reorder"
    ELSE IF item.quantity_on_hand <= item.reorder_point + 10
         THEN "low"
         ELSE "ok"

\* stock_status with the threshold comparison turned round.
stock_status_band_inverted(item) ==
    IF item.quantity_on_hand <= item.reorder_point
    THEN "reorder"
    ELSE IF 100 * item.quantity_on_hand > 110 * item.reorder_point
         THEN "low"
         ELSE "ok"

stock_status(item) ==
    IF item.quantity_on_hand <= item.reorder_point
    THEN "reorder"
    ELSE IF 100 * item.quantity_on_hand <= 110 * item.reorder_point
         THEN "low"
         ELSE "ok"

----------------------------------------------------------------------------
(* forms.py: StockAdjustmentForm.apply_to -- the row that is saved *)

\* apply_to without the floor at zero.
apply_to_unclamped(item, adjustment) ==
    [item EXCEPT !.quantity_on_hand = item.quantity_on_hand + adjustment]

\* apply_to with the floor tested on the adjustment instead of the sum.
apply_to_floor_adjustment(item, adjustment) ==
    [item EXCEPT !.quantity_on_hand =
        IF adjustment < 0 THEN 0 ELSE item.quantity_on_hand + adjustment]

apply_to(item, adjustment) ==
    LET sum == item.quantity_on_hand + adjustment
    IN  [item EXCEPT !.quantity_on_hand = IF sum < 0 THEN 0 ELSE sum]

----------------------------------------------------------------------------
(* notifications.py *)

session_get(sess) == IF sess.present THEN sess.alerts ELSE <<>>

StockAlert(pk, item, old_status, new_status) ==
    [item_id |-> pk,
     item_name |-> item.name,
     old_status |-> old_status,
     new_status |-> new_status,
     quantity |-> str_decimal(item.quantity_on_hand),
     reorder_point |-> str_decimal(item.reorder_point)]

\* queue_stock_alert without the already-critical suppression.
queue_stock_alert_no_suppress(sess, pk, item, old_status, new_status) ==
    IF new_status \notin {"low", "reorder"}
    THEN sess
    ELSE [present |-> TRUE,
          alerts |-> Append(session_get(sess),
                            StockAlert(pk, item, old_status, new_status))]

\* queue_stock_alert that stores the list under the key before its tests.
queue_stock_alert_setdefault(sess, pk, item, old_status, new_status) ==
    IF new_status \notin {"low", "reorder"} \/ old_status \in {"low", "reorder"}
    THEN [present |-> TRUE, alerts |-> session_get(sess)]
    ELSE [present |-> TRUE,
          alerts |-> Append(session_get(sess),
                            StockAlert(pk, item, old_status, new_status))]

\* queue_stock_alert that stores only the new alert under the key.
queue_stock_alert_overwrite(sess, pk, item, old_status, new_status) ==
    IF new_status \notin {"low", "reorder"}
    THEN sess
    ELSE IF old_status \in {"low", "reorder"}
         THEN sess
         ELSE [present |-> TRUE,
               alerts |-> <<StockAlert(pk, item, old_status, new_status)>>]

\* queue_stock_alert without the test of new_status.
queue_stock_alert_any_new_status(sess, pk, item, old_status, new_status) ==
    IF old_status \in {"low", "reorder"}
    THEN sess
    ELSE [present |-> TRUE,
          alerts |-> Append(session_get(sess),
                            StockAlert(pk, item, old_status, new_status))]

queue_stock_alert(sess, pk, item, old_status, new_status) ==
    IF new_status \notin {"low", "reorder"}
    THEN sess
    ELSE IF old_status \in {"low", "reorder"}
         THEN sess
         ELSE [present |-> TRUE,
               alerts |-> Append(session_get(sess),
                                 StockAlert(pk, item, old_status, new_status))]

\* get_pending_alerts that hands the list back newest first.
get_pending_alerts_newest_first(sess) ==
    [i \in 1..Len(session_get(sess)) |->
        session_get(sess)[Len(session_get(sess)) + 1 - i]]

get_pending_alerts(sess) == session_get(sess)

\* clear_pending_alerts that stores an empty list under the key.
clear_pending_alerts_empty_list(sess) ==
    IF sess.present THEN [present |-> TRUE, alerts |-> <<>>] ELSE sess

clear_pending_alerts(sess) == IF sess.present THEN EmptySession ELSE sess

----------------------------------------------------------------------------
(* notifications.py: send_stock_alert_email.  The transport (send_mail     *)
(* with fail_silently=False) either delivers the message or raises.        *)

RECURSIVE alerts_with_status(_, _)
alerts_with_status(alerts, status) ==
    IF alerts = <<>>
    THEN <<>>
    ELSE IF Head(alerts).new_status = status
         THEN <<Head(alerts)>> \o alerts_with_status(Tail(alerts), status)
         ELSE alerts_with_status(Tail(alerts), status)

\* One send_mail call: recipient list, the count in the subject line, and
\* the template context the two bodies are rendered from.
Message(to, subject_count, reorder_alerts, low_alerts, total_count) ==
    [recipient_list |-> <<to>>,
     subject_count |-> subject_count,
     reorder_alerts |-> reorder_alerts,
     low_alerts |-> low_alerts,
     total_count |-> total_count]

\* What a call does: the send_mail calls it makes and how it ends
\* ("True", "False", or "raised" when send_mail raises).
Outcome(result, sends) == [result |-> result, sends |-> sends]

\* send_stock_alert_email with fail_silently=True.
send_stock_alert_email_fail_silently(email, alerts, transport_ok) ==
    IF alerts = <<>>
    THEN Outcome("False", <<>>)
    ELSE IF email = ""
         THEN Outcome("False", <<>>)
         ELSE Outcome("True",
                      <<Message(email, Len(alerts),
                                alerts_with_status(alerts, "reorder"),
                                alerts_with_status(alerts, "low"),
                                Len(alerts))>>)

\* send_stock_alert_email without the user.email test.
send_stock_alert_email_no_email_test(email, alerts, transport_ok) ==
    IF alerts = <<>>
    THEN Outcome("False", <<>>)
    ELSE Outcome(IF transport_ok THEN "True" ELSE "raised",
                 <<Message(email, Len(alerts),
                           alerts_with_status(alerts, "reorder"),
                           alerts_with_status(alerts, "low"),
                           Len(alerts))>>)

\* send_stock_alert_email whose early returns give True.
send_stock_alert_email_returns_true(email, alerts, transport_ok) ==
    IF alerts = <<>>
    THEN Outcome("True", <<>>)
    ELSE IF email = ""
         THEN Outcome("True", <<>>)
         ELSE Outcome(IF transport_ok THEN "True" ELSE "raised",
                      <<Message(email, Len(alerts),
                                alerts_with_status(alerts, "reorder"),
                                alerts_with_status(alerts, "low"),
                                Len(alerts))>>)

\* send_stock_alert_email with the two groups exchanged.
send_stock_alert_email_groups_swapped(email, alerts, transport_ok) ==
    IF alerts = <<>>
    THEN Outcome("False", <<>>)
    ELSE IF email = ""
         THEN Outcome("False", <<>>)
         ELSE Outcome(IF transport_ok THEN "True" ELSE "raised",
                      <<Message(email, Len(alerts),
                                alerts_with_status(alerts, "low"),
                                alerts_with_status(alerts, "reorder"),
                                Len(alerts))>>)

\* send_stock_alert_email that sends one message per alert.
send_stock_alert_email_per_alert(email, alerts, transport_ok) ==
    IF alerts = <<>>
    THEN Outcome("False", <<>>)
    ELSE IF email = ""
         THEN Outcome("False", <<>>)
         ELSE Outcome(IF transport_ok THEN "True" ELSE "raised",
                      [i \in 1..Len(alerts) |->
                          Message(email, 1,
                                  alerts_with_status(<<alerts[i]>>, "reorder"),
                                  alerts_with_status(<<alerts[i]>>, "low"),
                                  1)])

send_stock_alert_email(email, alerts, transport_ok) ==
    IF alerts = <<>>
    THEN Outcome("False", <<>>)
    ELSE IF email = ""
         THEN Outcome("False", <<>>)
         ELSE Outcome(IF transport_ok THEN "True" ELSE "raised",
                      <<Message(email, Len(alerts),
                                alerts_with_status(alerts, "reorder"),
                                alerts_with_status(alerts, "low"),
                                Len(alerts))>>)

----------------------------------------------------------------------------
(* logout_with_notifications (imported by config/urls.py from            *)
(* inventory.views): flush the session's queue to one notification, clear *)
(* it, log the user out and redirect.  A send failure propagates, so the  *)
(* clear is not reached.                                                   *)

logout_with_notifications(sess, email, transport_ok) ==
    LET alerts == get_pending_alerts(sess)
        sent == send_stock_alert_email(email, alerts, transport_ok)
    IN  IF sent.result = "raised"
        THEN [session |-> sess, result |-> "raised", sends |-> sent.sends]
        ELSE [session |-> clear_pending_alerts(sess), result |-> "302",
              sends |-> sent.sends]

----------------------------------------------------------------------------
(* views.py: adjust_stock with a valid POST.  The view reads the row,     *)
(* applies the form and renders the row; it writes neither the change log *)
(* nor the session.                                                        *)

\* adjust_stock that queues an alert on every adjustment.
adjust_stock_alerting(db, logs, sess, pk, adjustment) ==
    LET row == apply_to(db[pk], adjustment)
    IN  [items |-> [db EXCEPT ![pk] = row],
         change_logs |-> logs,
         session |-> [present |-> TRUE,
                      alerts |-> Append(session_get(sess),
                                        StockAlert(pk, row,
                                                   stock_status(db[pk]),
                                                   stock_status(row)))]]

adjust_stock(db, logs, sess, pk, adjustment) ==
    [items |-> [db EXCEPT ![pk] = apply_to(db[pk], adjustment)],
     change_logs |-> logs,
     session |-> sess]

\* item.save() without update_fields: every column is written.
save_all_fields(stored, instance) == instance

\* item.save(update_fields=["quantity_on_hand", "updated_at"]): only the
\* quantity column of the stored row takes the instance's value.
save_update_fields(stored, instance) ==
    [stored EXCEPT !.quantity_on_hand = instance.quantity_on_hand]

\* adjust_stock that re-reads the row when it writes.
adjust_stock_save_refreshed(stored, loaded, adjustment) ==
    save_update_fields(stored, apply_to(stored, adjustment))

\* The write of adjust_stock: form.apply_to(item) works on the instance that
\* get_object_or_404 loaded at the start of the request, whatever the row
\* holds by now.
adjust_stock_save(stored, loaded, adjustment) ==
    save_update_fields(stored, apply_to(loaded, adjustment))

----------------------------------------------------------------------------
(* views.py: item_create, item_update, item_delete *)

item_create(n, q, r) == Row(n, q, r)

item_update(item, n, q, r) ==
    [item EXCEPT !.name = n, !.quantity_on_hand = q, !.reorder_point = r]

\* A delete that leaves the change-log rows of the item in place.
cascade_delete_keep_logs(logs, pk) == logs

RECURSIVE cascade_delete(_, _)
cascade_delete(logs, pk) ==
    IF logs = <<>>
    THEN <<>>
    ELSE IF Head(logs).item = pk
         THEN cascade_delete(Tail(logs), pk)
         ELSE <<Head(logs)>> \o cascade_delete(Tail(logs), pk)

----------------------------------------------------------------------------
(* models.py: TRACKED_FIELDS, capture_item_state, log_item_changes *)

TRACKED_FIELDS ==
    <<"name", "manufacturer", "category", "subcategory", "description",
      "quantity_on_hand", "unit_of_measure", "reorder_point", "notes">>

\* The fields log_item_changes walks: [*TRACKED_FIELDS, "earmarked_for"].
LoggedFields == TRACKED_FIELDS \o <<"earmarked_for">>

FieldNames == {LoggedFields[i] : i \in 1..Len(LoggedFields)}

\* A display string that is not a formatted Decimal.
str_text(t) == [text |-> t]

\* A snapshot argument: None, or a dict from field names to display strings.
None == [given |-> FALSE, state |-> <<>>]

Dict(st) == [given |-> TRUE, state |-> st]

\* Python truthiness of a dict-or-None: None and {} are false.
Truthy(snap) == snap.given /\ DOMAIN snap.state # {}

\* dict.get(field, "")
state_get(st, field) == IF field \in DOMAIN st THEN st[field] ELSE str_text("")

\* The rows of the model carry name, quantity_on_hand and reorder_point;
\* the remaining tracked fields hold the values of the hop_item fixture.
capture_item_state(item) ==
    [f \in FieldNames |->
        CASE f = "name" -> str_text(item.name)
          [] f = "quantity_on_hand" -> str_decimal(item.quantity_on_hand)
          [] f = "reorder_point" -> str_decimal(item.reorder_point)
          [] f = "category" -> str_text("ingredient")
          [] f = "subcategory" -> str_text("hops")
          [] f = "unit_of_measure" -> str_text("oz")
          [] OTHER -> str_text("")]

ItemChangeLog(pk, action, field_name, old_value, new_value) ==
    [item |-> pk, action |-> action, field_name |-> field_name,
     old_value |-> old_value, new_value |-> new_value]

\* The loop of log_item_changes over fields, from the i-th field on.
RECURSIVE changed_field_logs(_, _, _, _, _)
changed_field_logs(pk, action, old_state, new_state, i) ==
    IF i > Len(LoggedFields)
    THEN <<>>
    ELSE LET field == LoggedFields[i]
             old_val == state_get(old_state, field)
             new_val == state_get(new_state, field)
             rest == changed_field_logs(pk, action, old_state, new_state, i + 1)
         IN  IF old_val # new_val
             THEN <<ItemChangeLog(pk, action, field, old_val, new_val)>> \o rest
             ELSE rest

\* The same loop without the old_val != new_val test.
RECURSIVE every_field_logs(_, _, _, _, _)
every_field_logs(pk, action, old_state, new_state, i) ==
    IF i > Len(LoggedFields)
    THEN <<>>
    ELSE <<ItemChangeLog(pk, action, LoggedFields[i],
                         state_get(old_state, LoggedFields[i]),
                         state_get(new_state, LoggedFields[i]))>>
         \o every_field_logs(pk, action, old_state, new_state, i + 1)

\* log_item_changes that logs every field of the snapshots.
log_item_changes_every_field(pk, action, old_state, new_state) ==
    IF action = "created"
    THEN <<ItemChangeLog(pk, action, "", str_text(""), str_text(""))>>
    ELSE IF Truthy(old_state) /\ Truthy(new_state)
         THEN every_field_logs(pk, action, old_state.state, new_state.state, 1)
         ELSE <<>>

\* log_item_changes whose field loop also runs for action created.
log_item_changes_created_diffs(pk, action, old_state, new_state) ==
    (IF action = "created"
     THEN <<ItemChangeLog(pk, action, "", str_text(""), str_text(""))>>
     ELSE <<>>)
    \o (IF Truthy(old_state) /\ Truthy(new_state)
        THEN changed_field_logs(pk, action, old_state.state, new_state.state, 1)
        ELSE <<>>)

\* log_item_changes that reads a missing snapshot as an empty dict.
log_item_changes_missing_as_empty(pk, action, old_state, new_state) ==
    IF action = "created"
    THEN <<ItemChangeLog(pk, action, "", str_text(""), str_text(""))>>
    ELSE changed_field_logs(pk, action, old_state.state, new_state.state, 1)

\* The list log_item_changes returns; each entry is also inserted into the
\* ItemChangeLog table, in this order.
log_item_changes(pk, action, old_state, new_state) ==
    IF action = "created"
    THEN <<ItemChangeLog(pk, action, "", str_text(""), str_text(""))>>
    ELSE IF Truthy(old_state) /\ Truthy(new_state)
         THEN changed_field_logs(pk, action, old_state.state, new_state.state, 1)
         ELSE <<>>

----------------------------------------------------------------------------
(* The record of the last operation *)

NoCall == [op |-> "init", sess |-> "", pk |-> "", delta |-> 0,
           old_status |-> "", new_status |-> "",
           before_item |-> NoItem, before_session |-> EmptySession,
           before_logs |-> <<>>, result |-> "",
           action |-> "", old_state |-> None, new_state |-> None,
           returned |-> <<>>,
           user_email |-> "", transport_ok |-> TRUE, alerts_arg |-> <<>>,
           sends |-> <<>>]

\* No adjust_stock request in progress in a session.
NoRequest == [pc |-> "idle", pk |-> "", item |-> NoItem, adjustment |-> 0,
              read_after |-> 0, wrote_after |-> 0, status |-> ""]

----------------------------------------------------------------------------
(* Initial states *)

Fixture ==
    [pk \in ItemIds |->
        IF pk = "i1"
        THEN Row("Cascade Hops", MaxQty, 10)
        ELSE Row("Another Item", 5, 10)]

\* A session in which one alert was queued earlier.
PriorSession ==
    queue_stock_alert(EmptySession, "i2", Fixture["i2"], "ok", "reorder")

PriorQualifying ==
    IF PriorSession.present
    THEN <<[pk |-> "i2", old_status |-> "ok", new_status |-> "reorder"]>>
    ELSE <<>>

\* The view requests start from the fixture rows, each session either
\* without the queue key or with one alert queued earlier.
Init ==
    /\ items = Fixture
    /\ change_logs = <<>>
    /\ session \in [Sessions -> {EmptySession, PriorSession}]
    /\ qualifying = [s \in Sessions |->
                        IF session[s] = EmptySession THEN <<>>
                        ELSE PriorQualifying]
    /\ call = NoCall
    /\ requests = [s \in Sessions |-> NoRequest]

\* The alert-queue functions start from the fixture rows and empty sessions.
InitAlerts ==
    /\ items = Fixture
    /\ change_logs = <<>>
    /\ session = [s \in Sessions |-> EmptySession]
    /\ qualifying = [s \in Sessions |-> <<>>]
    /\ call = NoCall
    /\ requests = [s \in Sessions |-> NoRequest]

\* The classifier is applied to every row of a bounded grid.
InitClassify ==
    /\ \E q \in -1..ClassifyMaxQty, r \in 0..ClassifyMaxReorder :
           items = [pk \in ItemIds |-> Row("Cascade Hops", q, r)]
    /\ change_logs = <<>>
    /\ session = [s \in Sessions |-> EmptySession]
    /\ qualifying = [s \in Sessions |-> <<>>]
    /\ call = NoCall
    /\ requests = [s \in Sessions |-> NoRequest]

----------------------------------------------------------------------------
(* Actions: view requests *)

AdjustStock(s, pk, d) ==
    /\ items[pk].exists
    /\ items[pk].quantity_on_hand + d <= MaxQty
    /\ LET post == adjust_stock(items, change_logs, session[s], pk, d)
       IN  /\ items' = post.items
           /\ change_logs' = post.change_logs
           /\ session' = [session EXCEPT ![s] = post.session]
           /\ call' = [NoCall EXCEPT !.op = "adjust_stock", !.sess = s,
                          !.pk = pk, !.delta = d,
                          !.old_status = stock_status(items[pk]),
                          !.new_status = stock_status(post.items[pk]),
                          !.before_item = items[pk],
                          !.before_session = session[s],
                          !.before_logs = change_logs]
    /\ UNCHANGED <<qualifying, requests>>

\* views.py: item_create with a valid POST; form.save() inserts a new row.
ItemCreate(pk, n, q, r) ==
    /\ ~items[pk].exists
    /\ items' = [items EXCEPT ![pk] = item_create(n, q, r)]
    /\ UNCHANGED <<change_logs, session, qualifying, requests>>
    /\ call' = [NoCall EXCEPT !.op = "item_create", !.pk = pk,
                   !.before_logs = change_logs]

\* views.py: item_update with a valid POST; form.save() rewrites the row.
ItemUpdate(pk, n, q, r) ==
    /\ items[pk].exists
    /\ items' = [items EXCEPT ![pk] = item_update(items[pk], n, q, r)]
    /\ UNCHANGED <<change_logs, session, qualifying, requests>>
    /\ call' = [NoCall EXCEPT !.op = "item_update", !.pk = pk,
                   !.before_item = items[pk],
                   !.before_logs = change_logs]

\* views.py: item_delete with POST; ItemChangeLog.item is on_delete=CASCADE.
ItemDelete(pk) ==
    /\ items[pk].exists
    /\ items' = [items EXCEPT ![pk] = NoItem]
    /\ change_logs' = cascade_delete(change_logs, pk)
    /\ UNCHANGED <<session, qualifying, requests>>
    /\ call' = [NoCall EXCEPT !.op = "item_delete", !.pk = pk,
                   !.before_logs = change_logs]

Next ==
    \/ \E s \in Sessions, pk \in ViewItemIds, d \in Deltas :
          AdjustStock(s, pk, d)
    \/ \E pk \in ViewItemIds, n \in Names, q \in FormQuantities,
          r \in FormReorderPoints : ItemCreate(pk, n, q, r)
    \/ \E pk \in ViewItemIds, n \in Names, q \in FormQuantities,
          r \in FormReorderPoints : ItemUpdate(pk, n, q, r)
    \/ \E pk \in ViewItemIds : ItemDelete(pk)

Spec == Init /\ [][Next]_vars

----------------------------------------------------------------------------
(* Actions: the alert-queue functions of notifications.py *)

Qualifies(old_status, new_status) ==
    new_status \in Critical /\ old_status \notin Critical

\* queue_stock_alert on a store that every session shares.
QueueStockAlert_shared_store(s, pk, old_status, new_status) ==
    /\ items[pk].exists
    /\ Len(session_get(session[s])) < MaxQueue
    /\ session' = [t \in Sessions |->
           queue_stock_alert(session[s], pk, items[pk], old_status, new_status)]
    /\ qualifying' = [qualifying EXCEPT ![s] =
           IF Qualifies(old_status, new_status)
           THEN Append(@, [pk |-> pk, old_status |-> old_status,
                           new_status |-> new_status])
           ELSE @]
    /\ UNCHANGED <<items, change_logs, requests>>
    /\ call' = [NoCall EXCEPT !.op = "queue_stock_alert", !.sess = s,
                   !.pk = pk, !.old_status = old_status,
                   !.new_status = new_status,
                   !.before_session = session[s]]

QueueStockAlert(s, pk, old_status, new_status) ==
    /\ items[pk].exists
    /\ Len(session_get(session[s])) < MaxQueue
    /\ session' = [session EXCEPT ![s] =
           queue_stock_alert(session[s], pk, items[pk], old_status, new_status)]
    /\ qualifying' = [qualifying EXCEPT ![s] =
           IF Qualifies(old_status, new_status)
           THEN Append(@, [pk |-> pk, old_status |-> old_status,
                           new_status |-> new_status])
           ELSE @]
    /\ UNCHANGED <<items, change_logs, requests>>
    /\ call' = [NoCall EXCEPT !.op = "queue_stock_alert", !.sess = s,
                   !.pk = pk, !.old_status = old_status,
                   !.new_status = new_status,
                   !.before_session = session[s]]

ClearPendingAlerts(s) ==
    /\ session' = [session EXCEPT ![s] = clear_pending_alerts(session[s])]
    /\ qualifying' = [qualifying EXCEPT ![s] = <<>>]
    /\ UNCHANGED <<items, change_logs, requests>>
    /\ call' = [NoCall EXCEPT !.op = "clear_pending_alerts", !.sess = s,
                   !.before_session = session[s]]

GetPendingAlerts(s) ==
    /\ call' = [NoCall EXCEPT !.op = "get_pending_alerts", !.sess = s,
                   !.before_session = session[s],
                   !.returned = get_pending_alerts(session[s])]
    /\ UNCHANGED <<items, change_logs, session, qualifying, requests>>

\* send_stock_alert_email called with the alerts of session s, or with [].
SendStockAlertEmail(s, email, alerts, transport_ok) ==
    /\ LET sent == send_stock_alert_email(email, alerts, transport_ok)
       IN  call' = [NoCall EXCEPT !.op = "send_stock_alert_email", !.sess = s,
                       !.user_email = email, !.alerts_arg = alerts,
                       !.transport_ok = transport_ok,
                       !.before_session = session[s],
                       !.result = sent.result, !.sends = sent.sends]
    /\ UNCHANGED <<items, change_logs, session, qualifying, requests>>

NextAlerts ==
    \/ \E s \in Sessions, pk \in ItemIds, old_status \in Statuses,
          new_status \in Statuses :
          QueueStockAlert(s, pk, old_status, new_status)
    \/ \E s \in Sessions : GetPendingAlerts(s)
    \/ \E s \in Sessions : ClearPendingAlerts(s)
    \/ \E s \in Sessions, email \in Emails \ {""} :
          SendStockAlertEmail(s, email, get_pending_alerts(session[s]), TRUE)

SpecAlerts == InitAlerts /\ [][NextAlerts]_vars

\* GET /logout/ in session s, whose user has the given email.
Logout(s, email, transport_ok) ==
    /\ LET done == logout_with_notifications(session[s], email, transport_ok)
       IN  /\ session' = [session EXCEPT ![s] = done.session]
           /\ qualifying' = [qualifying EXCEPT ![s] =
                                IF done.result = "raised" THEN @ ELSE <<>>]
           /\ call' = [NoCall EXCEPT !.op = "logout", !.sess = s,
                          !.user_email = email,
                          !.alerts_arg = get_pending_alerts(session[s]),
                          !.transport_ok = transport_ok,
                          !.before_session = session[s],
                          !.result = done.result, !.sends = done.sends]
    /\ UNCHANGED <<items, change_logs, requests>>

\* One browser session queues alerts for crossings out of "ok" and is then
\* flushed, by send_stock_alert_email directly or by logging out.
NextLogout ==
    \/ \E s \in LogoutSessions, pk \in ItemIds, new_status \in Critical :
          QueueStockAlert(s, pk, "ok", new_status)
    \/ \E s \in LogoutSessions, email \in Emails, transport_ok \in BOOLEAN :
          \E alerts \in {<<>>, get_pending_alerts(session[s])} :
             SendStockAlertEmail(s, email, alerts, transport_ok)
    \/ \E s \in LogoutSessions, email \in Emails, transport_ok \in BOOLEAN :
          Logout(s, email, transport_ok)

SpecLogout == InitAlerts /\ [][NextLogout]_vars

----------------------------------------------------------------------------
(* Actions: adjust_stock requests of two sessions, each in two steps *)

\* The requests that have written so far.
Written_requests == Cardinality({t \in Sessions : requests[t].pc = "done"})

\* adjust_stock, first statement: item = get_object_or_404(InventoryItem, pk).
AdjustStockLoad(s, pk) ==
    /\ requests[s].pc = "idle"
    /\ items[pk].exists
    /\ requests' = [requests EXCEPT ![s] =
                       [NoRequest EXCEPT !.pc = "loaded", !.pk = pk,
                                         !.item = items[pk],
                                         !.read_after = Written_requests]]
    /\ call' = [NoCall EXCEPT !.op = "adjust_stock_load", !.sess = s,
                   !.pk = pk]
    /\ UNCHANGED <<items, change_logs, session, qualifying>>

\* adjust_stock, the valid POST branch: form.apply_to(item), then the row is
\* rendered (status 200).
AdjustStockSave(s, d) ==
    /\ requests[s].pc = "loaded"
    /\ requests[s].item.quantity_on_hand + d <= MaxQty
    /\ LET pk == requests[s].pk
       IN  /\ items' = [items EXCEPT ![pk] =
                           adjust_stock_save(items[pk], requests[s].item, d)]
           /\ call' = [NoCall EXCEPT !.op = "adjust_stock_save", !.sess = s,
                          !.pk = pk, !.delta = d,
                          !.before_item = items[pk],
                          !.result = "200"]
    /\ requests' = [requests EXCEPT ![s].pc = "done", ![s].adjustment = d,
                                    ![s].wrote_after = Written_requests,
                                    ![s].status = "200"]
    /\ UNCHANGED <<change_logs, session, qualifying>>

NextConcurrent ==
    \/ \E s \in Sessions, pk \in ViewItemIds : AdjustStockLoad(s, pk)
    \/ \E s \in Sessions, d \in Deltas : AdjustStockSave(s, d)
    \/ \E pk \in ViewItemIds, n \in Names, r \in FormReorderPoints :
          ItemUpdate(pk, n, items[pk].quantity_on_hand, r)

SpecConcurrent == InitAlerts /\ [][NextConcurrent]_vars

----------------------------------------------------------------------------
(* Actions: the status properties of models.py *)

StockStatus(pk) ==
    /\ items[pk].exists
    /\ call' = [NoCall EXCEPT !.op = "stock_status", !.pk = pk,
                   !.result = stock_status(items[pk])]
    /\ UNCHANGED <<items, change_logs, session, qualifying, requests>>

IsLowStock(pk) ==
    /\ items[pk].exists
    /\ call' = [NoCall EXCEPT !.op = "is_low_stock", !.pk = pk,
                   !.result = IF is_low_stock(items[pk]) THEN "True"
                              ELSE "False"]
    /\ UNCHANGED <<items, change_logs, session, qualifying, requests>>

NextClassify ==
    \/ \E pk \in ViewItemIds : StockStatus(pk)
    \/ \E pk \in ViewItemIds : IsLowStock(pk)
    \/ \E s \in LogoutSessions, pk \in ViewItemIds, d \in 0..MaxDelta :
          AdjustStock(s, pk, d)

SpecClassify == InitClassify /\ [][NextClassify]_vars

----------------------------------------------------------------------------
(* Actions: log_item_changes of models.py, called with snapshots *)

\* Snapshots of the fixture row and of edits of it.
SnapshotRows ==
    {Row(n, q, 10) : n \in Names, q \in {11, MaxQty}}

SnapshotInputs ==
    {None, Dict(<<>>)}
    \cup {Dict(capture_item_state(row)) : row \in SnapshotRows}
    \cup {Dict([capture_item_state(Fixture["i1"])
                  EXCEPT !["earmarked_for"] = str_text("Test Pale Ale")])}

InitLog ==
    /\ items = Fixture
    /\ change_logs = <<>>
    /\ session = [s \in Sessions |-> EmptySession]
    /\ qualifying = [s \in Sessions |-> <<>>]
    /\ call = NoCall
    /\ requests = [s \in Sessions |-> NoRequest]

LogItemChanges(pk, action, old_state, new_state) ==
    /\ items[pk].exists
    /\ Len(change_logs) <= MaxPriorLogs
    /\ LET logs == log_item_changes(pk, action, old_state, new_state)
       IN  /\ change_logs' = change_logs \o logs
           /\ call' = [NoCall EXCEPT !.op = "log_item_changes", !.pk = pk,
                          !.action = action, !.old_state = old_state,
                          !.new_state = new_state, !.returned = logs,
                          !.before_logs = change_logs]
    /\ UNCHANGED <<items, session, qualifying, requests>>

NextLog ==
    \E pk \in ViewItemIds, action \in ActionTypes,
       old_state \in SnapshotInputs, new_state \in SnapshotInputs :
       LogItemChanges(pk, action, old_state, new_state)

SpecLog == InitLog /\ [][NextLog]_vars

\* Items are created, edited, adjusted, logged about and deleted.
NextLifecycle ==
    \/ \E pk \in ItemIds, action \in ActionTypes :
          LogItemChanges(pk, action,
                         Dict(capture_item_state(Fixture[pk])),
                         Dict(capture_item_state(items[pk])))
    \/ \E pk \in ViewItemIds : ItemDelete(pk)
    \/ \E pk \in ViewItemIds :
          ItemCreate(pk, Fixture[pk].name, MaxQty, Fixture[pk].reorder_point)
    \/ \E pk \in ViewItemIds : \E n \in Names \ {Fixture[pk].name} :
          ItemUpdate(pk, n, items[pk].quantity_on_hand,
                     items[pk].reorder_point)
    \/ \E s \in LogoutSessions, pk \in ViewItemIds :
          AdjustStock(s, pk, -MaxDelta)

SpecLifecycle == InitLog /\ [][NextLifecycle]_vars

----------------------------------------------------------------------------
(* Properties *)

Adjusted == call.op = "adjust_stock"

Queued == call.op = "queue_stock_alert"

AlertsNow == session_get(session[call.sess])

AlertsBefore == session_get(call.before_session)

QuantityBefore == call.before_item.quantity_on_hand

QuantityNow == items[call.pk].quantity_on_hand

\* C1: after a stock adjustment, whatever the sign and size of the delta,
\* the stored quantity_on_hand is not negative.
C1_QuantityNeverNegative ==
    Adjusted => QuantityNow >= 0

C1_Witness ==
    /\ Adjusted
    /\ QuantityBefore > 0
    /\ call.delta = -BigDelta
    /\ QuantityNow = 0

\* C2: an adjustment that moves the item from ok to low or reorder appends
\* exactly one alert to the requesting session's queue, and that alert's
\* new_status is the item's status after the adjustment.
C2_CrossingQueuesOneAlert ==
    (Adjusted /\ call.old_status = "ok" /\ call.new_status \in Critical)
    => /\ session[call.sess].present
       /\ Len(AlertsNow) = Len(AlertsBefore) + 1
       /\ SubSeq(AlertsNow, 1, Len(AlertsBefore)) = AlertsBefore
       /\ AlertsNow[Len(AlertsNow)].new_status = stock_status(items[call.pk])

\* C3: an adjustment whose resulting status is ok, or whose starting status
\* was already low or reorder, leaves the requesting session's alert queue
\* as it was.
C3_NonCrossingQueuesNothing ==
    (Adjusted /\ (call.new_status = "ok" \/ call.old_status \in Critical))
    => session[call.sess] = call.before_session

C3_Witness ==
    /\ Adjusted
    /\ call.old_status = "low"
    /\ call.new_status = "reorder"
    /\ call.before_session.present
    /\ session[call.sess] = call.before_session

\* C4: queue_stock_alert called with old_status low or reorder leaves the
\* session's alert queue exactly as it was, whatever new_status is.
C4_AlreadyCriticalIsNoOp ==
    (Queued /\ call.old_status \in Critical)
    => session[call.sess] = call.before_session

C4_Witness ==
    /\ Queued
    /\ call.old_status = "low"
    /\ call.new_status = "reorder"
    /\ Len(AlertsBefore) > 0
    /\ AlertsNow = AlertsBefore

\* C5: queue_stock_alert called with a new_status other than low or reorder
\* leaves the alert queue unchanged and does not create the queue key.
C5_NonCriticalNewStatusIsNoOp ==
    (Queued /\ call.new_status \notin Critical)
    => /\ AlertsNow = AlertsBefore
       /\ session[call.sess].present = call.before_session.present

C5_Witness ==
    /\ Queued
    /\ call.old_status = "low"
    /\ call.new_status = "ok"
    /\ ~call.before_session.present
    /\ ~session[call.sess].present

\* C6: a qualifying queue_stock_alert call (new_status low or reorder,
\* old_status neither) appends exactly one alert at the end of the queue:
\* the earlier alerts keep content and order and the new alert records the
\* given statuses; n qualifying calls on an absent queue give a queue of
\* length n in call order.
C6_QualifyingCallAppendsOne ==
    /\ (Queued /\ Qualifies(call.old_status, call.new_status))
       => /\ session[call.sess].present
          /\ Len(AlertsNow) = Len(AlertsBefore) + 1
          /\ \A i \in 1..Len(AlertsBefore) : AlertsNow[i] = AlertsBefore[i]
          /\ AlertsNow[Len(AlertsNow)].item_id = call.pk
          /\ AlertsNow[Len(AlertsNow)].old_status = call.old_status
          /\ AlertsNow[Len(AlertsNow)].new_status = call.new_status
    /\ \A s \in Sessions :
          LET alerts == session_get(session[s])
          IN  /\ Len(alerts) = Len(qualifying[s])
              /\ \A i \in 1..Len(alerts) :
                    /\ alerts[i].item_id = qualifying[s][i].pk
                    /\ alerts[i].old_status = qualifying[s][i].old_status
                    /\ alerts[i].new_status = qualifying[s][i].new_status

C6_Witness ==
    /\ Queued
    /\ Qualifies(call.old_status, call.new_status)
    /\ Len(AlertsBefore) = 1
    /\ Len(AlertsNow) = 2
    /\ AlertsNow[1] # AlertsNow[2]

\* C7: for a reorder point r >= 0, stock_status is reorder exactly when
\* quantity <= r, the boundary included, and is_low_stock is true in exactly
\* those cases.
C7_ReorderIffAtOrBelowPoint ==
    LET q == items[call.pk].quantity_on_hand
        r == items[call.pk].reorder_point
    IN  /\ (call.op = "stock_status" /\ r >= 0)
           => (call.result = "reorder" <=> q <= r)
        /\ (call.op = "is_low_stock" /\ r >= 0)
           => (call.result = "True" <=> q <= r)
        /\ \A pk \in ItemIds :
              (items[pk].exists /\ items[pk].reorder_point >= 0)
              => (is_low_stock(items[pk])
                  <=> stock_status(items[pk]) = "reorder")

C7_Witness ==
    /\ call.op = "stock_status"
    /\ items[call.pk].reorder_point > 0
    /\ items[call.pk].quantity_on_hand = items[call.pk].reorder_point
    /\ call.result = "reorder"

\* C8: stock_status always yields one of reorder, low, ok; for r > 0 it is
\* low exactly when r < quantity <= 1.10 r and ok exactly when
\* quantity > 1.10 r; a quantity at or below r is reorder although it also
\* lies under the 1.10 r threshold.
C8_LowBandAndOk ==
    LET q == items[call.pk].quantity_on_hand
        r == items[call.pk].reorder_point
    IN  call.op = "stock_status"
        => /\ call.result \in Statuses
           /\ (r > 0)
              => /\ (call.result = "low") <=> (r < q /\ 10 * q <= 11 * r)
                 /\ (call.result = "ok") <=> (10 * q > 11 * r)
                 /\ (q <= r) => (call.result = "reorder")

C8_Witness ==
    /\ call.op = "stock_status"
    /\ items[call.pk].reorder_point > 0
    /\ 10 * items[call.pk].quantity_on_hand = 11 * items[call.pk].reorder_point
    /\ call.result = "low"

\* C9: apply_to stores max(0, q + d): a positive delta on a non-negative
\* quantity adds exactly d, a negative delta with q + d >= 0 subtracts
\* exactly |d|, and a negative delta with q + d < 0 stores 0.
C9_StoresFlooredSum ==
    Adjusted
    => /\ QuantityNow = Max(0, QuantityBefore + call.delta)
       /\ (call.delta > 0 /\ QuantityBefore >= 0)
          => QuantityNow - QuantityBefore = call.delta
       /\ (call.delta < 0 /\ QuantityBefore + call.delta >= 0)
          => QuantityBefore - QuantityNow = Abs(call.delta)
       /\ (call.delta < 0 /\ QuantityBefore + call.delta < 0)
          => QuantityNow = 0

C9_Witness ==
    /\ Adjusted
    /\ call.delta < 0
    /\ QuantityBefore + call.delta > 0
    /\ QuantityNow = QuantityBefore + call.delta

\* C10: a stock adjustment that changes the quantity writes exactly one
\* change-log entry (stock_adjusted, quantity_on_hand, old and new quantity);
\* one that leaves the quantity unchanged writes none.
C10_AdjustmentLogsQuantityChange ==
    Adjusted
    => /\ Len(change_logs) >= Len(call.before_logs)
       /\ SubSeq(change_logs, 1, Len(call.before_logs)) = call.before_logs
       /\ SubSeq(change_logs, Len(call.before_logs) + 1, Len(change_logs)) =
             IF QuantityNow = QuantityBefore
             THEN <<>>
             ELSE <<[item |-> call.pk,
                     action |-> "stock_adjusted",
                     field_name |-> "quantity_on_hand",
                     old_value |-> str_decimal(QuantityBefore),
                     new_value |-> str_decimal(QuantityNow)]>>

Logged == call.op = "log_item_changes"

\* The change-log rows written by the last operation.
Written ==
    SubSeq(change_logs, Len(call.before_logs) + 1, Len(change_logs))

FieldPosition(f) == CHOOSE i \in 1..Len(LoggedFields) : LoggedFields[i] = f

\* C11: for action updated or stock_adjusted with both snapshots given,
\* log_item_changes emits one entry per logged field whose old and new
\* display strings differ, with that field name and the two values, in the
\* fixed field order, and no entry for an unchanged field; identical
\* snapshots give no entry.
C11_OneEntryPerChangedField ==
    (/\ Logged
     /\ call.action \in {"updated", "stock_adjusted"}
     /\ Truthy(call.old_state)
     /\ Truthy(call.new_state))
    => LET old == call.old_state.state
           new == call.new_state.state
           changed == {f \in FieldNames : state_get(old, f) # state_get(new, f)}
       IN  /\ call.returned = Written
           /\ Len(change_logs) = Len(call.before_logs) + Cardinality(changed)
           /\ \A f \in changed :
                 \E i \in 1..Len(Written) :
                    Written[i] = ItemChangeLog(call.pk, call.action, f,
                                               old[f], new[f])
           /\ \A i \in 1..Len(Written) : Written[i].field_name \in changed
           /\ \A i, j \in 1..Len(Written) :
                 i < j => FieldPosition(Written[i].field_name)
                          < FieldPosition(Written[j].field_name)
           /\ (old = new) => (Written = <<>>)

C11_Witness ==
    /\ Logged
    /\ call.action = "updated"
    /\ Truthy(call.old_state)
    /\ Truthy(call.new_state)
    /\ Len(Written) = 2
    /\ Written[1].field_name = "name"
    /\ Written[2].field_name = "quantity_on_hand"
    /\ Len(call.before_logs) = 1

\* C12: for action created, log_item_changes emits exactly one entry with
\* empty field_name, old_value and new_value, whatever snapshots are passed.
C12_CreatedEmitsOneBareEntry ==
    (Logged /\ call.action = "created")
    => /\ Written = <<ItemChangeLog(call.pk, "created", "",
                                    str_text(""), str_text(""))>>
       /\ call.returned = Written
       /\ SubSeq(change_logs, 1, Len(call.before_logs)) = call.before_logs

C12_Witness ==
    /\ Logged
    /\ call.action = "created"
    /\ Truthy(call.old_state)
    /\ Truthy(call.new_state)
    /\ call.old_state # call.new_state
    /\ Len(Written) = 1

\* C15: for action updated or stock_adjusted, when the old or the new
\* snapshot is missing (None, or an empty dict), log_item_changes returns
\* no entry and the change-log table is as it was.
C15_MissingSnapshotLogsNothing ==
    (/\ Logged
     /\ call.action \in {"updated", "stock_adjusted"}
     /\ (~Truthy(call.old_state) \/ ~Truthy(call.new_state)))
    => /\ call.returned = <<>>
       /\ change_logs = call.before_logs

C15_Witness ==
    /\ Logged
    /\ call.action = "stock_adjusted"
    /\ call.old_state = None
    /\ Truthy(call.new_state)
    /\ change_logs = call.before_logs
    /\ Len(change_logs) = 1

\* C13: creating an item through item_create leaves exactly one change-log
\* entry for that item, with action created and empty field_name.
C13_CreateLogsCreated ==
    call.op = "item_create"
    => LET OfItem(e) == e.item = call.pk
           mine == SelectSeq(change_logs, OfItem)
       IN  /\ Len(mine) = 1
           /\ mine[1].action = "created"
           /\ mine[1].field_name = ""

\* C14: updating an item through item_update writes one entry with action
\* updated per tracked field whose value changed, carrying the old and the
\* new value, and none for a field submitted with its existing value.
C14_UpdateLogsChangedFields ==
    call.op = "item_update"
    => LET old == capture_item_state(call.before_item)
           new == capture_item_state(items[call.pk])
           changed == {f \in FieldNames : old[f] # new[f]}
       IN  /\ Len(change_logs) = Len(call.before_logs) + Cardinality(changed)
           /\ \A f \in changed :
                 \E i \in 1..Len(Written) :
                    Written[i] = ItemChangeLog(call.pk, "updated", f,
                                               old[f], new[f])
           /\ \A i \in 1..Len(Written) : Written[i].field_name \in changed


----------------------------------------------------------------------------
(* The notification flush *)

Mailed == call.op = "send_stock_alert_email"
LoggedOut == call.op = "logout"

\* The positions of the alerts with the given new_status, and the k-th of
\* them in list order.
PositionsOf(alerts, status) ==
    {i \in 1..Len(alerts) : alerts[i].new_status = status}
KthPosition(alerts, status, k) ==
    CHOOSE i \in PositionsOf(alerts, status) :
        Cardinality({j \in PositionsOf(alerts, status) : j <= i}) = k
InListOrder(group, alerts, status) ==
    /\ Len(group) = Cardinality(PositionsOf(alerts, status))
    /\ \A k \in 1..Len(group) :
          group[k] = alerts[KthPosition(alerts, status, k)]

\* C16: logging out with an email address and a non-empty queue makes
\* exactly one send that covers every queued alert, and once the logout
\* has completed the session's queue is empty; logging out with an empty
\* or absent queue sends nothing and the logout still completes.
C16_LogoutFlushesOnce ==
    LoggedOut
    => /\ (call.user_email # "" /\ call.alerts_arg # <<>>)
          => /\ Len(call.sends) = 1
             /\ call.sends[1].recipient_list = <<call.user_email>>
             /\ call.sends[1].total_count = Len(call.alerts_arg)
             /\ Len(call.sends[1].reorder_alerts)
                  + Len(call.sends[1].low_alerts) = Len(call.alerts_arg)
             /\ call.result = "302" => AlertsNow = <<>>
       /\ call.alerts_arg = <<>>
          => call.sends = <<>> /\ call.result = "302"

C16_Witness ==
    /\ LoggedOut
    /\ call.user_email # ""
    /\ Len(call.alerts_arg) = MaxQueue
    /\ Len(call.sends) = 1
    /\ call.result = "302"
    /\ AlertsNow = <<>>

C18_NothingToSendReturnsFalse ==
    (Mailed /\ (call.alerts_arg = <<>> \/ call.user_email = ""))
    => /\ call.result = "False"
       /\ call.sends = <<>>
       /\ session[call.sess] = call.before_session

C18_Witness ==
    /\ Mailed
    /\ call.alerts_arg # <<>>
    /\ call.user_email = ""
    /\ call.result = "False"
    /\ call.sends = <<>>

\* C19: send_stock_alert_email returns True exactly when a notification
\* was actually sent: a completed call with alerts and an email address
\* makes exactly one send, addressed to that email, and returns True; every
\* other completed call returns False with no send.
C19_TrueIffSent ==
    Mailed
    => LET sendable == call.alerts_arg # <<>> /\ call.user_email # ""
           completed == call.result # "raised"
       IN  /\ (call.result = "True")
                <=> (call.sends # <<>> /\ call.transport_ok)
           /\ (completed /\ sendable)
              => /\ call.result = "True"
                 /\ Len(call.sends) = 1
                 /\ call.sends[1].recipient_list = <<call.user_email>>
           /\ (completed /\ ~sendable)
              => call.result = "False" /\ call.sends = <<>>

C19_Witness ==
    /\ Mailed
    /\ call.result = "True"
    /\ Len(call.sends) = 1
    /\ call.sends[1].recipient_list = <<"test@example.com">>

\* C20: a flush of n alerts composes one message whose critical group is
\* the alerts with new_status "reorder" and whose warning group is those
\* with new_status "low", each in queue order, and whose total count (also
\* the count in the subject) is n.
C20_OneMessageTwoGroups ==
    (Mailed /\ call.sends # <<>>)
    => /\ Len(call.sends) = 1
       /\ InListOrder(call.sends[1].reorder_alerts, call.alerts_arg, "reorder")
       /\ InListOrder(call.sends[1].low_alerts, call.alerts_arg, "low")
       /\ call.sends[1].total_count = Len(call.alerts_arg)
       /\ call.sends[1].subject_count = Len(call.alerts_arg)

C20_Witness ==
    /\ Mailed
    /\ Len(call.sends) = 1
    /\ call.sends[1].reorder_alerts # <<>>
    /\ call.sends[1].low_alerts # <<>>
    /\ call.sends[1].total_count = MaxQueue


----------------------------------------------------------------------------
(* Peek and clear *)

Peeked == call.op = "get_pending_alerts"
Cleared == call.op = "clear_pending_alerts"

\* C21: get_pending_alerts returns the session's queue in insertion order
\* (the i-th alert returned is the i-th qualifying call made since the
\* queue was last cleared), returns the empty list when the key is absent,
\* and leaves the session as it was: no key is created, no alert removed.
C21_PeekReturnsQueueUnchanged ==
    Peeked
    => /\ Len(call.returned) = Len(qualifying[call.sess])
       /\ \A i \in 1..Len(call.returned) :
             /\ call.returned[i].item_id = qualifying[call.sess][i].pk
             /\ call.returned[i].new_status
                  = qualifying[call.sess][i].new_status
       /\ ~call.before_session.present => call.returned = <<>>
       /\ session[call.sess] = call.before_session

C21_Witness ==
    /\ Peeked
    /\ Len(call.returned) = MaxQueue
    /\ call.returned[1] # call.returned[MaxQueue]
    /\ session[call.sess].present

\* C22: clear_pending_alerts removes the queue key from the session, so a
\* following peek returns the empty list; with the key absent it changes
\* nothing; and clearing again leaves the session as the first clear did.
C22_ClearRemovesKey ==
    Cleared
    => /\ ~session[call.sess].present
       /\ get_pending_alerts(session[call.sess]) = <<>>
       /\ ~call.before_session.present
          => session[call.sess] = call.before_session
       /\ clear_pending_alerts(session[call.sess]) = session[call.sess]

C22_Witness ==
    /\ Cleared
    /\ call.before_session.present
    /\ call.before_session.alerts # <<>>
    /\ ~session[call.sess].present


----------------------------------------------------------------------------
(* Mutation and change log as one unit *)

\* C23: in create, update and stock adjustment the item mutation and the
\* change-log entries describing it are committed together: after such a
\* request the stored row differs from what it was exactly when change-log
\* entries were added.
C23_MutationAndLogsCommitTogether ==
    call.op \in {"adjust_stock", "item_create", "item_update"}
    => ((items[call.pk] # call.before_item)
          <=> (Len(change_logs) > Len(call.before_logs)))


----------------------------------------------------------------------------
(* Concurrent adjustments *)

Saved == call.op = "adjust_stock_save"

\* Sessions a and b have both adjusted the same item, both loaded it before
\* either wrote, and b's write, the later one, is the step just taken.
BothReadThenBothWrote(a, b) ==
    /\ a # b
    /\ requests[a].pc = "done"
    /\ requests[b].pc = "done"
    /\ requests[a].pk = requests[b].pk
    /\ requests[a].read_after = 0
    /\ requests[b].read_after = 0
    /\ requests[a].item.quantity_on_hand = requests[b].item.quantity_on_hand
    /\ requests[b].wrote_after = 1
    /\ Saved
    /\ call.sess = b

\* C24: when two sessions adjust the same item and both read the stored
\* quantity before either writes, the stored quantity after both writes is
\* the quantity they read plus the last writer's delta, floored at 0; the
\* first writer's adjustment is lost, and both requests end normally.
C24_LastWriteWins ==
    \A a \in Sessions, b \in Sessions :
        BothReadThenBothWrote(a, b)
        => /\ items[requests[b].pk].quantity_on_hand
                = Max(0, requests[b].item.quantity_on_hand
                         + requests[b].adjustment)
           /\ requests[a].status = "200"
           /\ requests[b].status = "200"

C24_Witness ==
    \E a \in Sessions, b \in Sessions :
        /\ BothReadThenBothWrote(a, b)
        /\ requests[a].adjustment = -MaxDelta
        /\ requests[b].adjustment = -MaxDelta
        /\ requests[b].item.quantity_on_hand = MaxQty
        /\ items[requests[b].pk].quantity_on_hand = MaxQty - MaxDelta

\* C29: the write of a stock adjustment changes only quantity_on_hand of
\* the stored row: name and reorder_point stay as the row held them just
\* before the write, also when the request loaded the item before another
\* request's edit of those fields was committed.
C29_AdjustmentWritesOnlyQuantity ==
    Saved
    => /\ items[call.pk].name = call.before_item.name
       /\ items[call.pk].reorder_point = call.before_item.reorder_point
       /\ items[call.pk].exists = call.before_item.exists

C29_Witness ==
    /\ Saved
    /\ requests[call.sess].item.name # call.before_item.name
    /\ requests[call.sess].item.reorder_point # call.before_item.reorder_point
    /\ items[call.pk].name = call.before_item.name
    /\ items[call.pk].quantity_on_hand # call.before_item.quantity_on_hand


----------------------------------------------------------------------------
(* Session isolation *)

\* The queue of session t holds exactly the alerts of the qualifying calls
\* made in t since its queue was last cleared.
OwnAlertsOnly(t) ==
    /\ Len(session_get(session[t])) = Len(qualifying[t])
    /\ \A i \in 1..Len(qualifying[t]) :
          /\ session_get(session[t])[i].item_id = qualifying[t][i].pk
          /\ session_get(session[t])[i].old_status
               = qualifying[t][i].old_status
          /\ session_get(session[t])[i].new_status
               = qualifying[t][i].new_status

\* C25: alert queues are per session: a queue_stock_alert, peek, clear or
\* flush made in one session leaves every other session's store as it was,
\* what it reads or returns is its own session's queue, and each queue
\* holds only the alerts queued by its own session's calls.
C25_QueuesArePerSession ==
    [][ /\ \A t \in Sessions :
             t # call'.sess => session'[t] = session[t]
        /\ \A t \in Sessions : OwnAlertsOnly(t)'
        /\ call'.op = "get_pending_alerts"
            => call'.returned = session_get(session[call'.sess])
        /\ call'.op = "send_stock_alert_email"
            => call'.alerts_arg = session_get(session[call'.sess]) ]_vars

C25_Witness ==
    /\ Queued
    /\ \E t \in Sessions :
          /\ t # call.sess
          /\ session_get(session[t]) # <<>>
          /\ Len(AlertsNow) = Len(AlertsBefore) + 1
          /\ \A i \in 1..Len(session_get(session[t])) :
                session_get(session[t])[i] # AlertsNow[Len(AlertsNow)]


----------------------------------------------------------------------------
(* What a queue can hold *)

\* The elements of a sequence.
Range(seq) == {seq[i] : i \in 1..Len(seq)}

\* C28: in a session written only by queue_stock_alert and
\* clear_pending_alerts every queued alert has new_status low or reorder
\* and old_status neither; so when the queue is flushed each alert is in
\* exactly one of the two groups of the message and the group sizes add up
\* to the total count.
C28_QueuedAlertsAreTransitionsIntoCritical ==
    /\ \A s \in Sessions : \A i \in 1..Len(session_get(session[s])) :
          /\ session_get(session[s])[i].new_status \in {"low", "reorder"}
          /\ session_get(session[s])[i].old_status \notin {"low", "reorder"}
    /\ (Mailed /\ call.sends # <<>>)
       => /\ \A a \in Range(call.alerts_arg) :
                (a \in Range(call.sends[1].reorder_alerts))
                  # (a \in Range(call.sends[1].low_alerts))
          /\ Len(call.sends[1].reorder_alerts)
               + Len(call.sends[1].low_alerts) = call.sends[1].total_count

C28_Witness ==
    /\ Mailed
    /\ call.alerts_arg = AlertsNow
    /\ Len(call.sends) = 1
    /\ Len(call.sends[1].reorder_alerts) = 1
    /\ Len(call.sends[1].low_alerts) = MaxQueue - 1


----------------------------------------------------------------------------
(* Change-log rows and their item *)

Deleted == call.op = "item_delete"

LogsOf(logs, pk) == {i \in 1..Len(logs) : logs[i].item = pk}

\* C26: change-log entries live and die with their item: a delete removes
\* every entry that references the deleted item and no other entry, so at
\* all times every entry references an item that exists.
C26_LogsDieWithTheirItem ==
    /\ \A i \in 1..Len(change_logs) : items[change_logs[i].item].exists
    /\ Deleted
       => /\ LogsOf(change_logs, call.pk) = {}
          /\ Len(change_logs)
               = Len(call.before_logs)
                 - Cardinality(LogsOf(call.before_logs, call.pk))

C26_Witness ==
    /\ Deleted
    /\ LogsOf(call.before_logs, call.pk) # {}
    /\ change_logs # <<>>
    /\ LogsOf(change_logs, call.pk) = {}


----------------------------------------------------------------------------
(* The classifier at reorder_point 0, and its monotonicity *)

\* C27: with reorder_point = 0, stock_status is reorder exactly when the
\* quantity is at most 0 and is never low: every positive quantity is ok.
C27_ZeroReorderPointHasNoLowBand ==
    (call.op = "stock_status" /\ items[call.pk].reorder_point = 0)
    => /\ (call.result = "reorder")
            <=> (items[call.pk].quantity_on_hand <= 0)
       /\ call.result # "low"
       /\ (items[call.pk].quantity_on_hand > 0) => (call.result = "ok")

C27_Witness ==
    /\ call.op = "stock_status"
    /\ items[call.pk].reorder_point = 0
    /\ items[call.pk].quantity_on_hand = 1
    /\ call.result = "ok"

\* The order reorder < low < ok.
Rank(status) ==
    CASE status = "reorder" -> 0
      [] status = "low" -> 1
      [] status = "ok" -> 2

\* C30: for a fixed reorder_point r >= 0, stock_status is monotone in the
\* quantity under reorder < low < ok; hence a non-negative adjustment never
\* worsens the status and never gives an (old, new) pair that qualifies for
\* an alert.
C30_StatusMonotoneInQuantity ==
    /\ (call.op = "stock_status" /\ items[call.pk].reorder_point >= 0)
       => \A q2 \in items[call.pk].quantity_on_hand..ClassifyMaxQty :
             Rank(call.result)
               <= Rank(stock_status([items[call.pk]
                                       EXCEPT !.quantity_on_hand = q2]))
    /\ (Adjusted /\ call.delta >= 0 /\ call.before_item.reorder_point >= 0)
       => /\ Rank(call.old_status) <= Rank(call.new_status)
          /\ ~Qualifies(call.old_status, call.new_status)

C30_Witness ==
    /\ Adjusted
    /\ call.delta > 0
    /\ call.before_item.reorder_point > 0
    /\ call.old_status = "reorder"
    /\ call.new_status = "ok"

====
